---- MODULE Spec2Model ----
(***************************************************************************)
(* nestjs-cache-mediator: CacheFirstService.cacheFirst / warmCacheForKey   *)
(* and CacheFirstProcessor.handleCacheFirstJob, as a state machine.        *)
(*                                                                         *)
(* Every `await` of the service is a point where other callers, the worker *)
(* and the clock may run, so each awaited call of the cache driver and of   *)
(* the Bull queue is one action.  The queue is driven with the options the *)
(* service passes to add(): jobId = cacheKey (an id that already exists is *)
(* not added again), removeOnComplete = true (a completed job is deleted),  *)
(* no removeOnFail (a failed job stays), timeout = jobTTL (the processing  *)
(* of the job is failed after jobTTL).                                     *)
(***************************************************************************)
EXTENDS Integers, FiniteSets, Sequences, TLC

VARIABLES
    cache,         \* the cache driver's store: cacheKey -> text, where present
    jobs,          \* the Bull queue: job id (= cacheKey) -> job
    call,          \* each caller's cacheFirst / warmCacheForKey invocation
    handlerCalls,  \* per key, how often the processor has called a handler
    running,       \* per key, the handler executions that have not ended
    writer         \* per key, the call whose set() ran last on the entry
                   \* (0 once the entry was deleted or has expired)

vars == <<cache, jobs, call, handlerCalls, running, writer>>

\* ---------------------------------------------------------------- bounds
MaxCalls == 2
MaxWait == 3

Calls == 1..MaxCalls
Keys == {"k1", "k2"}

\* The arguments callers pass: cacheKey, jobTTL (ms), jobType, params.  Two
\* requests share k1 with different params and jobTTL, one names a job type
\* that was never registered, one is on another key.
Requests ==
    { [cacheKey |-> "k1", jobTTL |-> 1, jobType |-> "getSomeData", params |-> 1],
      [cacheKey |-> "k1", jobTTL |-> 2, jobType |-> "getSomeData", params |-> 2],
      [cacheKey |-> "k1", jobTTL |-> 1, jobType |-> "notRegistered", params |-> 1],
      [cacheKey |-> "k2", jobTTL |-> 1, jobType |-> "getSomeData", params |-> 2] }

\* ------------------------------------------------------ handler registry
\* CacheFirstService.jobHandlers after module initialisation.
jobHandlers == {"getSomeData"}

getHandler(jobType) == jobType \in jobHandlers

\* The registered handler: an application function of params whose output
\* also depends on the data it reads when it runs (n: the n-th invocation).
Handler(jobType, params, n) == n * 10 + params

Results == 0..(10 * (MaxCalls + 1) + 9)

\* ------------------------------------------------------------------ JSON
JSONstringify(r) == ToString(r)

JSONparses(s) == \E r \in Results : ToString(r) = s

JSONparse(s) == CHOOSE r \in Results : ToString(r) = s

\* `if (cached)`: null and the empty string are falsy.
Truthy(k) == k \in DOMAIN cache /\ cache[k] # ""

\* Entries a store can hold when a call arrives: nothing, text that is not
\* JSON, or the serialization of an earlier result (of a handler run that
\* precedes every run of the model).
CorruptText == "{oops"
OldResult == Handler("getSomeData", 7, 0)
InitialEntries == {CorruptText, JSONstringify(OldResult)}

\* ------------------------------------------------------------------ jobs
\* A job of the queue: state (none: no job with this id; waiting; active;
\* failed), its payload (jobType, params), its timeout option, the time its
\* processing has lasted, and for the properties: n, the number of the
\* handler invocation that processes it, and owner, the call that added it.
NoJob == [state |-> "none", jobType |-> "", params |-> 0, timeout |-> 0,
          elapsed |-> 0, n |-> 0, failedReason |-> "", owner |-> 0]

\* ----------------------------------------------------------------- calls
\* One invocation: pc is the await it stands at (del, get, getJob, add,
\* getJobAgain, finished, wait, set) or idle / done; kind, cacheKey, jobTTL,
\* jobType, params are its arguments; cached and result its locals; error
\* the exception it rejected with ("" when it returned).  The other fields
\* record what it did, for the properties: read (how its get() ended),
\* lookups, adds, sets (calls of getJob, add, set it has made), setOk (its
\* set() succeeded), waited (time spent in finished()), cause (why its job
\* failed), from (the handler invocation its result came from), began (the
\* handler invocations that had started when it began), overlaps (the calls
\* in flight when it began), invoked (handler runs of the job it added),
\* del (how the del() of a warmCacheForKey ended), inflight (the owner of
\* the job that was waiting or in process for its key when it began), by
\* (the call that added the job its result came from).
IdleCall == [pc |-> "idle", kind |-> "", cacheKey |-> "", jobTTL |-> 0,
             jobType |-> "", params |-> 0, result |-> 0, error |-> "",
             read |-> "", lookups |-> 0, adds |-> 0, sets |-> 0,
             setOk |-> FALSE, waited |-> 0, cause |-> "", from |-> 0,
             began |-> 0, overlaps |-> {}, cached |-> <<>>,
             invoked |-> 0, del |-> "", inflight |-> 0, by |-> 0]

Active(c) == call[c].pc \notin {"idle", "done"}

Init ==
    /\ cache \in {<<>>} \cup [{"k1"} -> InitialEntries]
    /\ jobs = [k \in Keys |-> NoJob]
    /\ call = [c \in Calls |-> IdleCall]
    /\ handlerCalls = [k \in Keys |-> 0]
    /\ running = [k \in Keys |-> 0]
    /\ writer = [k \in Keys |-> 0]

RECURSIVE SumOver(_, _)
SumOver(f, S) ==
    IF S = {} THEN 0
    ELSE LET x == CHOOSE y \in S : TRUE IN f[x] + SumOver(f, S \ {x})

\* Handler invocations so far, over all keys.
Invocations == SumOver(handlerCalls, Keys)

\* ------------------------------------------------- cacheFirst, step by step
\* A caller enters cacheFirst(cacheKey, redisTTL, jobTTL, jobType, params).
\* Callers are numbered in the order in which they arrive.
Enter(kind, req) ==
    [IdleCall EXCEPT !.pc = IF kind = "warmCacheForKey" THEN "del" ELSE "get",
                     !.kind = kind, !.cacheKey = req.cacheKey,
                     !.jobTTL = req.jobTTL, !.jobType = req.jobType,
                     !.params = req.params,
                     !.began = Invocations,
                     !.inflight =
                        IF jobs[req.cacheKey].state \in {"waiting", "active"}
                        THEN jobs[req.cacheKey].owner ELSE 0,
                     !.overlaps = {d \in Calls : Active(d)}]

CallCacheFirst(c) ==
    /\ call[c].pc = "idle"
    /\ \A d \in Calls : d < c => call[d].pc # "idle"
    /\ \E req \in Requests :
          call' = [call EXCEPT ![c] = Enter("cacheFirst", req)]
    /\ UNCHANGED <<cache, jobs, handlerCalls, running, writer>>

CallWarmCacheForKey(c) ==
    /\ call[c].pc = "idle"
    /\ \A d \in Calls : d < c => call[d].pc # "idle"
    /\ \E req \in Requests :
          call' = [call EXCEPT ![c] = Enter("warmCacheForKey", req)]
    /\ UNCHANGED <<cache, jobs, handlerCalls, running, writer>>

CacheDel_Flush(c) ==
    /\ call[c].pc = "del"
    /\ cache' = <<>>
    /\ writer' = [k \in Keys |-> 0]
    /\ call' = [call EXCEPT ![c].pc = "get", ![c].del = "ok"]
    /\ UNCHANGED <<jobs, handlerCalls, running>>

\* warmCacheForKey: await this.cacheDriver.del(cacheKey), then cacheFirst.
CacheDel(c) ==
    /\ call[c].pc = "del"
    /\ cache' = [k \in DOMAIN cache \ {call[c].cacheKey} |-> cache[k]]
    /\ writer' = [writer EXCEPT ![call[c].cacheKey] = 0]
    /\ call' = [call EXCEPT ![c].pc = "get", ![c].del = "ok"]
    /\ UNCHANGED <<jobs, handlerCalls, running>>

OnDelError_Swallowed(rec) ==
    [rec EXCEPT !.pc = "get", !.del = "failed"]

\* del rejects: nothing catches it, warmCacheForKey rejects.
OnDelError(rec) ==
    [rec EXCEPT !.pc = "done", !.del = "failed", !.error = "StoreError"]

CacheDelFail(c) ==
    /\ call[c].pc = "del"
    /\ call' = [call EXCEPT ![c] = OnDelError(call[c])]
    /\ UNCHANGED <<cache, jobs, handlerCalls, running, writer>>

OnCacheHit_FallsThrough(rec, cached) ==
    [rec EXCEPT !.pc = "getJob", !.read = "hit", !.cached = <<cached>>]

\* return JSON.parse(cached): the call ends with the parsed value.
OnCacheHit(rec, cached) ==
    [rec EXCEPT !.pc = "done", !.read = "hit", !.cached = <<cached>>,
                !.result = JSONparse(cached)]

OnParseError_Throws(rec, cached) ==
    [rec EXCEPT !.pc = "done", !.read = "corrupt", !.cached = <<cached>>,
                !.error = "ParseError"]

\* catch (err) { logger.error(...) }: falls through to the job lookup.
OnParseError(rec, cached) ==
    [rec EXCEPT !.pc = "getJob", !.read = "corrupt", !.cached = <<cached>>]

OnCacheMiss(rec) ==
    [rec EXCEPT !.pc = "getJob", !.read = "miss"]

\* const cached = await this.cacheDriver.get(cacheKey); if (cached) {...}
CacheGet(c) ==
    /\ call[c].pc = "get"
    /\ LET k == call[c].cacheKey IN
       call' = [call EXCEPT ![c] =
                  IF Truthy(k)
                  THEN IF JSONparses(cache[k])
                       THEN OnCacheHit(call[c], cache[k])
                       ELSE OnParseError(call[c], cache[k])
                  ELSE OnCacheMiss(call[c])]
    /\ UNCHANGED <<cache, jobs, handlerCalls, running, writer>>

\* get rejects: line 59 is outside every try, so cacheFirst rejects.
OnGetError(rec) ==
    [rec EXCEPT !.pc = "done", !.read = "error", !.error = "StoreError"]

CacheGetFail(c) ==
    /\ call[c].pc = "get"
    /\ call' = [call EXCEPT ![c] = OnGetError(call[c])]
    /\ UNCHANGED <<cache, jobs, handlerCalls, running, writer>>

\* bullJob = await this.cacheQueue.getJob(cacheKey); if (!bullJob) {...}
QueueGetJob(c) ==
    /\ call[c].pc = "getJob"
    /\ call' = [call EXCEPT
                  ![c].pc = IF jobs[call[c].cacheKey].state = "none"
                            THEN "add" ELSE "finished",
                  ![c].lookups = 1]
    /\ UNCHANGED <<cache, jobs, handlerCalls, running, writer>>

NewJob_NoParams(rec, c) ==
    [NoJob EXCEPT !.state = "waiting", !.jobType = rec.jobType,
                  !.timeout = rec.jobTTL, !.owner = c]

\* The job that add() stores: payload { jobType, params, cacheKey } and
\* the options { jobId: cacheKey, removeOnComplete: true, timeout: jobTTL }.
NewJob(rec, c) ==
    [NoJob EXCEPT !.state = "waiting", !.jobType = rec.jobType,
                  !.params = rec.params, !.timeout = rec.jobTTL, !.owner = c]

\* bullJob = await this.cacheQueue.add(...): an id that exists is not added.
QueueAdd(c) ==
    /\ call[c].pc = "add"
    /\ LET k == call[c].cacheKey IN
       jobs' = IF jobs[k].state = "none"
               THEN [jobs EXCEPT ![k] = NewJob(call[c], c)]
               ELSE jobs
    /\ call' = [call EXCEPT ![c].pc = "finished", ![c].adds = 1]
    /\ UNCHANGED <<cache, handlerCalls, running, writer>>

\* add rejects: catch (error) { bullJob = await getJob(cacheKey) ... }
QueueAddFail(c) ==
    /\ call[c].pc = "add"
    /\ call' = [call EXCEPT ![c].pc = "getJobAgain", ![c].adds = 1]
    /\ UNCHANGED <<cache, jobs, handlerCalls, running, writer>>

QueueGetJobAgain_NoLookup(c) ==
    /\ call[c].pc = "getJobAgain"
    /\ call' = [call EXCEPT ![c].pc = "done", ![c].lookups = 2,
                            ![c].error = "FailedToSchedule"]
    /\ UNCHANGED <<cache, jobs, handlerCalls, running, writer>>

\* if (!bullJob) throw new InternalServerErrorException('Failed to schedule')
QueueGetJobAgain(c) ==
    /\ call[c].pc = "getJobAgain"
    /\ call' = [call EXCEPT ![c] =
                  IF jobs[call[c].cacheKey].state = "none"
                  THEN [call[c] EXCEPT !.pc = "done", !.lookups = 2,
                                       !.error = "FailedToSchedule"]
                  ELSE [call[c] EXCEPT !.pc = "finished", !.lookups = 2]]
    /\ UNCHANGED <<cache, jobs, handlerCalls, running, writer>>

OnJobFailed_GoesOnToSet(rec, reason) ==
    [rec EXCEPT !.pc = "set", !.error = "JobTimedOut", !.cause = reason]

\* catch (err) { throw new InternalServerErrorException(`Job timed out after
\* ${jobTTL} ms`) }: whatever made finished() reject, no cache write follows.
OnJobFailed(rec, reason) ==
    [rec EXCEPT !.pc = "done", !.error = "JobTimedOut", !.cause = reason]

\* result = await bullJob.finished() resolved with the job's return value.
OnJobCompleted(rec, job, value) ==
    [rec EXCEPT !.pc = "set", !.result = value, !.from = job.n,
                !.by = job.owner]

\* bullJob.finished(), first part: a job already in the failed set rejects
\* at once; otherwise the caller listens for the job id's completed or
\* failed event.
JobFinished(c) ==
    /\ call[c].pc = "finished"
    /\ LET job == jobs[call[c].cacheKey] IN
       call' = [call EXCEPT ![c] =
                  IF job.state = "failed"
                  THEN OnJobFailed(call[c], job.failedReason)
                  ELSE [call[c] EXCEPT !.pc = "wait"]]
    /\ UNCHANGED <<cache, jobs, handlerCalls, running, writer>>

\* Every caller listening on job id k gets the event.
Waiting(c, k) == call[c].pc = "wait" /\ call[c].cacheKey = k

SetValue_Payload(rec) == JSONstringify(rec.params)

\* JSON.stringify(result), the text handed to cacheDriver.set.
SetValue(rec) == JSONstringify(rec.result)

\* await this.cacheDriver.set(cacheKey, JSON.stringify(result), redisTTL)
CacheSet(c) ==
    /\ call[c].pc = "set"
    /\ LET k == call[c].cacheKey IN
         /\ cache' = [j \in DOMAIN cache \cup {k} |->
                        IF j = k THEN SetValue(call[c]) ELSE cache[j]]
         /\ writer' = [writer EXCEPT ![k] = c]
    /\ call' = [call EXCEPT ![c].pc = "done", ![c].sets = 1,
                            ![c].setOk = TRUE]
    /\ UNCHANGED <<jobs, handlerCalls, running>>

OnSetError_Throws(rec) ==
    [rec EXCEPT !.pc = "done", !.sets = 1, !.error = "StoreError"]

\* catch (err) { logger.error(...) } and then return result.
OnSetError(rec) ==
    [rec EXCEPT !.pc = "done", !.sets = 1]

CacheSetFail(c) ==
    /\ call[c].pc = "set"
    /\ call' = [call EXCEPT ![c] = OnSetError(call[c])]
    /\ writer' = [writer EXCEPT ![call[c].cacheKey] = c]
    /\ UNCHANGED <<cache, jobs, handlerCalls, running>>

\* ------------------------------------------------------------ the worker
JobFails(k, reason) ==
    /\ jobs' = [jobs EXCEPT ![k].state = "failed", ![k].failedReason = reason]
    /\ call' = [c \in Calls |->
                  IF Waiting(c, k) THEN OnJobFailed(call[c], reason)
                  ELSE call[c]]

\* handleCacheFirstJob, up to the call of the handler: the queue hands a
\* waiting job to the processor; without a handler the processor throws.
handleCacheFirstJob(k) ==
    /\ jobs[k].state = "waiting"
    /\ IF getHandler(jobs[k].jobType)
       THEN /\ jobs' = [jobs EXCEPT ![k].state = "active",
                                    ![k].n = Invocations + 1]
            /\ handlerCalls' = [handlerCalls EXCEPT ![k] = @ + 1]
            /\ running' = [running EXCEPT ![k] = @ + 1]
            /\ call' = [call EXCEPT ![jobs[k].owner].invoked = @ + 1]
       ELSE /\ JobFails(k, "NoHandler")
            /\ UNCHANGED <<handlerCalls, running>>
    /\ UNCHANGED <<cache, writer>>

\* const result = await handler(params); return result.  The job completes,
\* removeOnComplete deletes it, and the listeners get its return value.
HandlerReturns(k) ==
    /\ jobs[k].state = "active"
    /\ LET job == jobs[k]
           value == Handler(job.jobType, job.params, job.n) IN
       call' = [c \in Calls |->
                  IF Waiting(c, k) THEN OnJobCompleted(call[c], job, value)
                  ELSE call[c]]
    /\ jobs' = [jobs EXCEPT ![k] = NoJob]
    /\ running' = [running EXCEPT ![k] = @ - 1]
    /\ UNCHANGED <<cache, handlerCalls, writer>>

\* catch (err) { logger.error(...); throw err; }: the job fails and stays.
HandlerThrows(k) ==
    /\ jobs[k].state = "active"
    /\ JobFails(k, "HandlerError")
    /\ running' = [running EXCEPT ![k] = @ - 1]
    /\ UNCHANGED <<cache, handlerCalls, writer>>

\* timeout: jobTTL.  The queue fails a job whose processing lasts jobTTL.
\* Without a clock, that is any moment of the processing.  The promise of
\* handler(params) is not cancelled: the execution goes on.
JobTimeout(k) ==
    /\ jobs[k].state = "active"
    /\ JobFails(k, "Timeout")
    /\ UNCHANGED <<cache, handlerCalls, running, writer>>

\* await handler(params) settles after the job was failed by its timeout:
\* the queue ignores the outcome.
HandlerEndsLate(k) ==
    /\ jobs[k].state # "active"
    /\ running[k] > 0
    /\ running' = [running EXCEPT ![k] = @ - 1]
    /\ UNCHANGED <<cache, jobs, call, handlerCalls, writer>>

\* With the clock: the timer fires when the processing has lasted jobTTL.
JobTimerFires(k) ==
    /\ jobs[k].elapsed >= jobs[k].timeout
    /\ JobTimeout(k)

\* --------------------------------------------------------- store and time
\* set(key, value, ttl): the store drops the entry when its TTL is over.
CacheExpire(k) ==
    /\ k \in DOMAIN cache
    /\ cache' = [j \in DOMAIN cache \ {k} |-> cache[j]]
    /\ writer' = [writer EXCEPT ![k] = 0]
    /\ UNCHANGED <<jobs, call, handlerCalls, running>>

InWait(c) == call[c].pc \in {"finished", "wait"}

\* One unit of time passes for every job in process and every caller that
\* waits.  The timer of a job in process fires before time passes it.
Tick ==
    /\ \A k \in Keys : jobs[k].state = "active" => jobs[k].elapsed < jobs[k].timeout
    /\ \/ \E k \in Keys : jobs[k].state = "active"
       \/ \E c \in Calls : InWait(c) /\ call[c].waited < MaxWait
    /\ jobs' = [k \in Keys |->
                  IF jobs[k].state = "active"
                  THEN [jobs[k] EXCEPT !.elapsed = @ + 1] ELSE jobs[k]]
    /\ call' = [c \in Calls |->
                  IF InWait(c) /\ call[c].waited < MaxWait
                  THEN [call[c] EXCEPT !.waited = @ + 1] ELSE call[c]]
    /\ UNCHANGED <<cache, handlerCalls, running, writer>>

CallStep ==
    \E c \in Calls :
          \/ CallCacheFirst(c)
          \/ CallWarmCacheForKey(c)
          \/ CacheDel(c)
          \/ CacheDelFail(c)
          \/ CacheGet(c)
          \/ CacheGetFail(c)
          \/ QueueGetJob(c)
          \/ QueueAdd(c)
          \/ QueueAddFail(c)
          \/ QueueGetJobAgain(c)
          \/ JobFinished(c)
          \/ CacheSet(c)
          \/ CacheSetFail(c)

WorkerStep ==
    \E k \in Keys :
          \/ handleCacheFirstJob(k)
          \/ HandlerReturns(k)
          \/ HandlerThrows(k)
          \/ HandlerEndsLate(k)
          \/ CacheExpire(k)

Next ==
    \/ CallStep
    \/ WorkerStep
    \/ \E k \in Keys : JobTimeout(k)

Spec == Init /\ [][Next]_vars

\* The same program where every awaited call of the store and of the queue
\* returns (or rejects) and the worker goes on: a step of a call that has
\* begun, and a step of the processing of a job, is not postponed for ever.
CallProgress(c) ==
    \/ CacheDel(c)
    \/ CacheDelFail(c)
    \/ CacheGet(c)
    \/ CacheGetFail(c)
    \/ QueueGetJob(c)
    \/ QueueAdd(c)
    \/ QueueAddFail(c)
    \/ QueueGetJobAgain(c)
    \/ JobFinished(c)
    \/ CacheSet(c)
    \/ CacheSetFail(c)

WorkerProgress(k) ==
    \/ handleCacheFirstJob(k)
    \/ HandlerReturns(k)
    \/ HandlerThrows(k)
    \/ JobTimeout(k)

Fairness ==
    /\ \A c \in Calls : WF_vars(CallProgress(c))
    /\ \A k \in Keys : WF_vars(WorkerProgress(k))

SpecFair == Init /\ [][Next]_vars /\ Fairness

\* The same program with the clock.
NextTimed ==
    \/ CallStep
    \/ WorkerStep
    \/ \E k \in Keys : JobTimerFires(k)
    \/ Tick

SpecTimed == Init /\ [][NextTimed]_vars

\* ================================================================ claims
Done(c) == call[c].pc = "done"
Returned(c) == Done(c) /\ call[c].error = ""
Failed(c) == Done(c) /\ call[c].error # ""

\* The values a handler invocation n can have produced for key k.
JobValues(k, n) ==
    {Handler(r.jobType, r.params, n) : r \in {q \in Requests : q.cacheKey = k}}

\* Two calls whose lifetimes overlap: one was in flight when the other began.
Overlap(c, d) == c \in call[d].overlaps \/ d \in call[c].overlaps

\* C1 (as claimed): cacheFirst calls on one key whose lifetimes overlap and
\* which all read a miss cause exactly one handler invocation between them:
\* never more than one, and one once they have returned.
C1_SingleFlight ==
    \A c, d \in Calls :
        ( /\ c # d
          /\ call[c].kind = "cacheFirst" /\ call[d].kind = "cacheFirst"
          /\ call[c].cacheKey = call[d].cacheKey
          /\ call[c].read = "miss" /\ call[d].read = "miss"
          /\ Overlap(c, d) )
        => /\ call[c].invoked + call[d].invoked <= 1
           /\ (Returned(c) /\ Returned(d)
                 => call[c].invoked + call[d].invoked = 1)

\* C2: a call whose get() returned text that parses has ended with the parsed
\* value and has looked up no job, added no job, had no handler run for it
\* and written nothing.
C2_CacheHitFastPath ==
    \A c \in Calls :
        call[c].read = "hit"
        => /\ Returned(c)
           /\ JSONstringify(call[c].result) = call[c].cached[1]
           /\ call[c].lookups = 0 /\ call[c].adds = 0
           /\ call[c].invoked = 0 /\ call[c].sets = 0
           /\ call[c].from = 0

C2_Witness ==
    \E c, d \in Calls :
        /\ c # d
        /\ call[c].read = "hit" /\ call[c].result = OldResult
        /\ call[d].cacheKey = call[c].cacheKey /\ call[d].pc = "wait"

\* C3 (as claimed): once a call has returned r through the miss path, the
\* entry of its key, while no later set, delete or expiry has touched it,
\* deserializes to r.
C3_CachePopulated ==
    \A c \in Calls :
        (Returned(c) /\ call[c].read # "hit" /\ writer[call[c].cacheKey] = c)
        => /\ call[c].cacheKey \in DOMAIN cache
           /\ JSONparses(cache[call[c].cacheKey])
           /\ JSONparse(cache[call[c].cacheKey]) = call[c].result

\* C3 (amended): the same, for a call whose set() succeeded.
C3_CachePopulatedIfSetSucceeded ==
    \A c \in Calls :
        ( /\ Returned(c) /\ call[c].read # "hit"
          /\ call[c].setOk /\ writer[call[c].cacheKey] = c )
        => /\ call[c].cacheKey \in DOMAIN cache
           /\ cache[call[c].cacheKey] = ToString(call[c].result)
           /\ JSONparses(cache[call[c].cacheKey])
           /\ JSONparse(cache[call[c].cacheKey]) = call[c].result

C3_Witness ==
    \E c \in Calls :
        /\ Returned(c) /\ call[c].read = "miss" /\ call[c].setOk
        /\ writer[call[c].cacheKey] = c
        /\ call[c].result \in JobValues(call[c].cacheKey, call[c].from)

\* C4 (as claimed): a warmCacheForKey call that returns never returns through
\* a cache hit, returns the result of a handler invocation that began after
\* the call did, and leaves that result's serialization in the entry it set.
C4_WarmRefreshBypassesCache ==
    \A c \in Calls :
        (call[c].kind = "warmCacheForKey" /\ Returned(c))
        => /\ call[c].read # "hit"
           /\ call[c].from > call[c].began
           /\ (call[c].setOk /\ writer[call[c].cacheKey] = c
                 => cache[call[c].cacheKey] = ToString(call[c].result))

\* C5 (as claimed): no caller obtains a result after a wait longer than the
\* jobTTL it passed; such a caller ends with the timeout error.
C5_TimeoutRequestScoped ==
    \A c \in Calls :
        call[c].waited > call[c].jobTTL
        => /\ call[c].pc # "set"
           /\ (Done(c) => call[c].error = "JobTimedOut")

\* C6 (as claimed): a call whose job failed for want of a registered handler
\* ends with an error of its own kind, not the timeout error, and has written
\* nothing.
C6_UnregisteredFailsFast ==
    \A c \in Calls :
        (Done(c) /\ call[c].cause = "NoHandler")
        => /\ call[c].error = "UnregisteredHandler"
           /\ call[c].sets = 0

\* C7 (as claimed): a call whose get() failed does not fail for it; it goes on
\* to look up the job as on a miss.
C7_ReadFailureIsMiss ==
    \A c \in Calls :
        call[c].read = "error"
        => /\ call[c].error # "StoreError"
           /\ (Done(c) => call[c].lookups >= 1)

\* C8: a call whose get() returned text that does not parse raises no error
\* for it and goes on as on a miss: it looks up the job, and what it returns
\* is the value of a handler invocation for its key, which it then sets.
C8_CorruptEntryIsMiss ==
    \A c \in Calls :
        call[c].read = "corrupt"
        => /\ ~JSONparses(call[c].cached[1])
           /\ call[c].pc \in {"getJob", "add", "getJobAgain", "finished",
                              "wait", "set", "done"}
           /\ call[c].error \in {"", "JobTimedOut", "FailedToSchedule"}
           /\ (call[c].pc # "getJob" => call[c].lookups >= 1)
           /\ (Returned(c)
                 => /\ call[c].from > 0
                    /\ call[c].result \in JobValues(call[c].cacheKey, call[c].from)
                    /\ call[c].sets = 1)

C8_Witness ==
    \E c \in Calls :
        /\ call[c].read = "corrupt" /\ Returned(c) /\ call[c].setOk
        /\ call[c].invoked = 1

\* C9: a call whose set() failed has returned, without error, the value its
\* job completed with.
C9_WriteFailureKeepsResult ==
    \A c \in Calls :
        (call[c].sets = 1 /\ ~call[c].setOk)
        => /\ Returned(c)
           /\ call[c].from > 0
           /\ call[c].result \in JobValues(call[c].cacheKey, call[c].from)

C9_Witness ==
    \E c \in Calls :
        /\ call[c].sets = 1 /\ ~call[c].setOk /\ Returned(c)
        /\ call[c].cacheKey \notin DOMAIN cache

\* C10: a call that ended in failure has run no set(): it is not the writer
\* of its key's entry.
C10_NoWriteOnFailure ==
    \A c \in Calls :
        Failed(c)
        => /\ call[c].sets = 0 /\ ~call[c].setOk
           /\ writer[call[c].cacheKey] # c

C10_Witness ==
    \E c, d \in Calls :
        /\ c # d
        /\ Failed(c) /\ call[c].cause = "HandlerError"
        /\ Failed(d) /\ call[d].error = "FailedToSchedule"
        /\ call[c].cacheKey = "k1" /\ call[d].cacheKey = "k1"
        /\ "k1" \in DOMAIN cache /\ cache["k1"] = CorruptText

\* C11: the step that follows a failed add() is the second getJob(): when it
\* finds a job the call goes on to await it, without error; when it finds
\* none the call ends with "Failed to schedule".  No other step ends a call
\* with that error, and a call that ends with it has not waited for a job,
\* has run no set() and leaves the store as it was.
C11_SchedulingFailure ==
    [][\A c \in Calls :
          LET k == call[c].cacheKey
              found == jobs[k].state # "none" IN
          /\ (call[c].pc = "getJobAgain" /\ call'[c].pc # "getJobAgain")
               => /\ call[c].adds = 1
                  /\ IF found
                     THEN call'[c].pc = "finished" /\ call'[c].error = ""
                     ELSE call'[c].pc = "done"
                          /\ call'[c].error = "FailedToSchedule"
          /\ (call'[c].error = "FailedToSchedule"
                   /\ call[c].error # "FailedToSchedule")
               => /\ call[c].pc = "getJobAgain" /\ ~found
                  /\ call'[c].sets = 0 /\ call'[c].from = 0
                  /\ call'[c].cause = "" /\ call'[c].invoked = 0
                  /\ cache' = cache /\ jobs' = jobs /\ writer' = writer
      ]_vars

\* A call whose add() failed awaited the job another caller had added in the
\* meantime and returned its value; another call failed to schedule.
C11_Witness ==
    \E c \in Calls :
        /\ call[c].lookups = 2 /\ call[c].adds = 1
        /\ Returned(c) /\ call[c].invoked = 0 /\ call[c].from > 0

\* C12: a warmCacheForKey whose del() failed has ended with the store's
\* error and has done nothing else: no get(), no getJob(), no add(), no
\* set(), no wait for a job, and no handler ran for it.
C12_WarmDelFailurePropagates ==
    \A c \in Calls :
        call[c].del = "failed"
          => /\ call[c].kind = "warmCacheForKey"
             /\ Failed(c) /\ call[c].error = "StoreError"
             /\ call[c].read = "" /\ call[c].lookups = 0
             /\ call[c].adds = 0 /\ call[c].sets = 0
             /\ call[c].from = 0 /\ call[c].cause = ""
             /\ call[c].invoked = 0
             /\ writer[call[c].cacheKey] # c

\* A warmCacheForKey failed in del() and the entry it was to delete is
\* still in the store.
C12_Witness ==
    \E c \in Calls :
        /\ call[c].del = "failed" /\ Failed(c)
        /\ call[c].cacheKey \in DOMAIN cache

\* A job that is waiting or in process.
InFlight(k) == jobs[k].state \in {"waiting", "active"}

\* Per key, at most one handler execution is running, and it is the one of
\* the job in process; a job that is waiting or in process is never replaced
\* by another job of the same id (a job appears only where there was none);
\* and a warmCacheForKey whose getJob() finds a job in flight goes on to
\* await it and the queue is left as it was.
OneJobAtATime ==
    [][/\ \A k \in Keys :
             /\ running'[k] <= 1
             /\ jobs'[k].state = "active" => running'[k] = 1
             /\ jobs'[k].state \in {"none", "waiting"} => running'[k] = 0
             /\ InFlight(k) /\ jobs'[k].state = "waiting"
                  => jobs'[k] = jobs[k]
             /\ InFlight(k) /\ jobs'[k].state = "active"
                  => jobs'[k].owner = jobs[k].owner
       /\ \A c \in Calls :
             (/\ call[c].kind = "warmCacheForKey"
              /\ call[c].pc = "getJob" /\ call'[c].pc # "getJob"
              /\ InFlight(call[c].cacheKey))
               => /\ call'[c].pc = "finished" /\ call'[c].adds = 0
                  /\ jobs' = jobs
      ]_vars

\* C13: per key at most one handler execution is running, and it belongs to
\* the job in process; and a warmCacheForKey that began while a job for its
\* key was in flight creates no job of its own: no job in the queue is its
\* job and no handler has run for a job it added.
C13_OneJobPerKey ==
    /\ \A k \in Keys :
          /\ running[k] <= 1
          /\ jobs[k].state = "active" => running[k] = 1
          /\ jobs[k].state \in {"none", "waiting"} => running[k] = 0
    /\ \A c \in Calls :
          (call[c].kind = "warmCacheForKey" /\ call[c].inflight # 0)
            => /\ call[c].invoked = 0
               /\ ~(jobs[call[c].cacheKey].state # "none"
                      /\ jobs[call[c].cacheKey].owner = c)

\* A call that holds the value of a finished job.
HasJobResult(c) == call[c].pc \in {"set", "done"} /\ call[c].from > 0

\* C14: callers that got the outcome of the same handler invocation hold the
\* same value; and two cacheFirst calls on one key whose lifetimes overlap
\* and which both returned the value of a job returned the same value.
C14_SharedOutcome ==
    \A c, d \in Calls :
        (c # d /\ call[c].cacheKey = call[d].cacheKey
           /\ HasJobResult(c) /\ HasJobResult(d))
        => /\ call[c].from = call[d].from
                => call[c].result = call[d].result
           /\ ( /\ call[c].kind = "cacheFirst" /\ call[d].kind = "cacheFirst"
                /\ Overlap(c, d) /\ Returned(c) /\ Returned(d) )
                => call[c].result = call[d].result

\* C15: a timeout is the caller's own: no job is failed by a timeout, and a
\* caller fails with a timeout only when its own wait has lasted the jobTTL
\* it passed.
C15_TimeoutDoesNotCancelJob ==
    /\ \A k \in Keys :
          ~(jobs[k].state = "failed" /\ jobs[k].failedReason = "Timeout")
    /\ \A c \in Calls :
          call[c].cause = "Timeout" => call[c].waited >= call[c].jobTTL

\* C16: the queue retains no job in a terminal state, so getJob() finds
\* none; and a call that failed because a handler execution failed or timed
\* out had that execution going on during its lifetime (in process when it
\* began, or started after it began).
C16_TerminalJobsNotRetained ==
    /\ \A k \in Keys : jobs[k].state # "failed"
    /\ \A c \in Calls :
          (Failed(c) /\ call[c].cause \in {"HandlerError", "Timeout"})
            => (call[c].inflight # 0 \/ Invocations > call[c].began)

\* C17: under SpecFair, every call that has begun ends: it returns a value
\* or an error.
C17_Termination ==
    \A c \in Calls : (call[c].pc # "idle") ~> Done(c)

\* What the store and the queue hold for key k.
KeyState(k) ==
    <<k \in DOMAIN cache, IF k \in DOMAIN cache THEN cache[k] ELSE "",
      jobs[k], handlerCalls[k], running[k], writer[k]>>

C19_NoStaleOverwrite ==
    \A w, a \in Calls :
        ( /\ w # a /\ call[w].cacheKey = call[a].cacheKey
          /\ call[w].kind = "warmCacheForKey" /\ Returned(w)
          /\ call[w].setOk /\ call[w].from > call[w].began
          /\ writer[call[w].cacheKey] = a /\ call[a].setOk )
        => call[a].from > call[w].began

\* C20 (as claimed): a call that holds the value of a job holds the output of
\* the handler registered for its own jobType applied to its own params, and
\* that is what it caches.
C20_ComputationMatchesCaller ==
    \A c \in Calls :
        HasJobResult(c)
        => /\ getHandler(call[c].jobType)
           /\ call[c].result
                = Handler(call[c].jobType, call[c].params, call[c].from)

\* C20 (amended): a call that holds the value of a job holds the output of
\* the handler registered for the jobType of the call that added that job,
\* applied to the params of the call that added it, on the caller's own key;
\* and that is the text its set() stores.
C20_ComputationMatchesJob ==
    \A c \in Calls :
        HasJobResult(c)
        => LET d == call[c].by
               k == call[c].cacheKey IN
           /\ d \in Calls
           /\ call[d].cacheKey = k /\ call[d].adds = 1
           /\ call[d].invoked >= 1
           /\ getHandler(call[d].jobType)
           /\ call[c].result
                = Handler(call[d].jobType, call[d].params, call[c].from)
           /\ (Returned(c) /\ call[c].setOk /\ writer[k] = c)
                => cache[k] = JSONstringify(
                       Handler(call[d].jobType, call[d].params, call[c].from))

\* A caller joined the job another caller had added with other params, and
\* returned that job's value, which is not the output for its own params.
C20_Witness ==
    \E c \in Calls :
        /\ Returned(c) /\ call[c].from > 0
        /\ call[c].by \in Calls \ {c}
        /\ call[call[c].by].params # call[c].params
        /\ call[c].result
             # Handler(call[c].jobType, call[c].params, call[c].from)
        /\ call[c].setOk /\ writer[call[c].cacheKey] = c

====
